---------------------------- MODULE Spec2Model ----------------------------
(***************************************************************************)
(* Model of climlib/wrangle.py: versionWeight, getFileMeta, filterXmls and *)
(* trimModelList.                                                          *)
(*                                                                         *)
(* Python strings that the code takes apart are held as sequences of       *)
(* one-character strings (version labels) or as sequences of tokens (a     *)
(* file name is the sequence of its '.'-separated fields, a path the       *)
(* sequence of its '/'-separated parts).  Tokens that the code only        *)
(* compares and sorts are one-character strings ordered as in ASCII.       *)
(***************************************************************************)
EXTENDS Integers, Sequences, FiniteSets, TLC

VARIABLES
    vLabel, vOut, vpc,                  \* last call of versionWeight
    fFiles, fKeyMap, fCrit, fOut, fpc,  \* last call of filterXmls
    files, disk, criteria, verbose,     \* last call of trimModelList: inputs
    filesOut, trace, pc                 \* ... and its outcome

vars == <<vLabel, vOut, vpc, fFiles, fKeyMap, fCrit, fOut, fpc,
          files, disk, criteria, verbose, filesOut, trace, pc>>

vVars == <<vLabel, vOut, vpc>>
fVars == <<fFiles, fKeyMap, fCrit, fOut, fpc>>
tVars == <<files, disk, criteria, verbose, filesOut, trace, pc>>

---------------------------------------------------------------------------
(* Python primitives used by the code *)

\* characters in ASCII order: str comparison, list.sort() on str
Ascii == <<"0", "1", "2", "3", "4", "5", "6", "7", "8", "9",
           "A", "B", "a", "e", "l", "r", "s", "t", "v">>

RECURSIVE OrdOf(_)
OrdOf(n) == IF n = 0 THEN <<>> ELSE (Ascii[n] :> n) @@ OrdOf(n - 1)

OrdTable == OrdOf(Len(Ascii))

\* the rank of character c
Ord(c) == OrdTable[c]

IsDigit(c) == Ord(c) <= 10

DigitVal(c) == Ord(c) - 1

Range(s) == {s[i] : i \in 1..Len(s)}

\* str.replace(ch, ''): every occurrence of ch removed
Replace(s, ch) == SelectSeq(s, LAMBDA c : c # ch)

\* int(s) raises ValueError on '' and on a non-digit
IntRaises(s) == s = <<>> \/ \E i \in 1..Len(s) : ~IsDigit(s[i])

RECURSIVE PyInt(_)
PyInt(s) ==
    IF s = <<>> THEN 0
    ELSE 10 * PyInt(SubSeq(s, 1, Len(s) - 1)) + DigitVal(s[Len(s)])

\* np.max(values)
Max(S) == CHOOSE x \in S : \A y \in S : y <= x

---------------------------------------------------------------------------
(* versionWeight, wrangle.py 69-85 *)

Latest == <<"l", "a", "t", "e", "s", "t">>

versionWeightRaises(V) == V # Latest /\ IntRaises(Replace(V, "v"))

versionWeightThreshold(V) ==
    IF V = Latest THEN 0
    ELSE LET n == PyInt(Replace(V, "v"))
         IN  IF n <= 10 THEN n * 100000000 ELSE n

versionWeight(V) ==
    IF V = Latest THEN 0
    ELSE LET n == PyInt(Replace(V, "v"))
         IN  IF n < 10 THEN n * 100000000 ELSE n


---------------------------------------------------------------------------
(* File names.  A path is <<directory, basename>>; the basename is the      *)
(* sequence of its '.'-separated fields.  Field 4 is the model, field 5    *)
(* the realization and field 10 the version label (0-based, as in the      *)
(* code); the other fields are the same in every name.                     *)

MkFn(model, rip, ver) ==
    <<"x", <<"c", "c", "h", "n", model, rip, "m", "t", "a", "g", ver, "x">>>>

\* fn.split('/')[-1].split('.')[i]
Field(fn, i) == fn[Len(fn)][i + 1]

---------------------------------------------------------------------------
(* getFileMeta, wrangle.py 88-121.  fh is what cdms2.open(fn) gives:        *)
(*   attributes     the names of the global attributes                     *)
(*   creation_date  [alpha, y, m, d]: alpha is cdate[0].isalpha(), y the    *)
(*                  year token, m and d the month and day of the ISO form  *)
(*   directory      the '/'-separated parts of fh.directory                *)
(*   axes, ntime    the axis names and len(fh['time'])                     *)

DawnOfTime == [alpha |-> FALSE, y |-> 1989, m |-> 3, d |-> 6]

\* str.find: the index of the first part equal to sub, -1 when there is none
Find(parts, sub) ==
    IF \E i \in 1..Len(parts) : parts[i] = sub
    THEN (CHOOSE i \in 1..Len(parts) :
              parts[i] = sub /\ \A j \in 1..(i - 1) : parts[j] # sub) - 1
    ELSE -1

\* bool(n) of an int
Bool(n) == n # 0

getFileMeta(fh) ==
    LET cd == IF "creation_date" \in fh.attributes
              THEN fh.creation_date ELSE DawnOfTime
    IN  [cdate   |-> IF cd.alpha THEN cd.y * 10000 + 101
                     ELSE cd.y * 10000 + cd.m * 100 + cd.d,
         publish |-> Bool(Find(fh.directory, "publish")),
         tpoints |-> IF "time" \in fh.axes THEN fh.ntime ELSE 0]

---------------------------------------------------------------------------
(* filterXmls, wrangle.py 24-66 *)

\* type(v) of keyMap[fn][crit]: publish is the bool of lines 111-114, the
\* others are the int of lines 81-84, 107-109 and 117-119
TypeOf(crit) == IF crit = "publish" THEN "bool" ELSE "int"

filterXmlsMin(fs, keyMap, crit) ==
    IF Len(fs) < 2 THEN fs
    ELSE IF TypeOf(crit) = "int"
         THEN LET vmin == CHOOSE x \in {keyMap[fs[i]][crit] : i \in 1..Len(fs)} :
                              \A i \in 1..Len(fs) : x <= keyMap[fs[i]][crit]
              IN  SelectSeq(fs, LAMBDA fn : keyMap[fn][crit] = vmin)
         ELSE SelectSeq(fs, LAMBDA fn : keyMap[fn][crit] = TRUE)

filterXmlsFallback(fs, keyMap, crit) ==
    IF Len(fs) < 2 THEN fs
    ELSE IF TypeOf(crit) = "int"
         THEN LET vmax == Max({keyMap[fs[i]][crit] : i \in 1..Len(fs)})
              IN  SelectSeq(fs, LAMBDA fn : keyMap[fn][crit] = vmax)
         ELSE LET vmax == \E i \in 1..Len(fs) : keyMap[fs[i]][crit]
              IN  SelectSeq(fs, LAMBDA fn : keyMap[fn][crit] = vmax)

filterXmlsGuard(fs, keyMap, crit) ==
    IF Len(fs) < 1 THEN fs
    ELSE IF TypeOf(crit) = "int"
         THEN LET vmax == Max({keyMap[fs[i]][crit] : i \in 1..Len(fs)})
              IN  SelectSeq(fs, LAMBDA fn : keyMap[fn][crit] = vmax)
         ELSE SelectSeq(fs, LAMBDA fn : keyMap[fn][crit] = TRUE)

filterXmls(fs, keyMap, crit) ==
    IF Len(fs) < 2 THEN fs
    ELSE IF TypeOf(crit) = "int"
         THEN LET vmax == Max({keyMap[fs[i]][crit] : i \in 1..Len(fs)})
              IN  SelectSeq(fs, LAMBDA fn : keyMap[fn][crit] = vmax)
         ELSE SelectSeq(fs, LAMBDA fn : keyMap[fn][crit] = TRUE)

---------------------------------------------------------------------------
(* trimModelList, wrangle.py 124-208 *)

\* lines 147-162: the metadata dictionary; dsk[fn] is the open file of fn
RECURSIVE BuildKeyMap(_, _)
BuildKeyMap(fs, dsk) ==
    IF fs = <<>> THEN <<>>
    ELSE LET fn   == fs[Len(fs)]
             meta == getFileMeta(dsk[fn])
         IN  (fn :> [model   |-> Field(fn, 4),
                     rip     |-> Field(fn, 5),
                     ver     |-> versionWeight(Field(fn, 10)),
                     cdate   |-> meta.cdate,
                     publish |-> meta.publish,
                     tpoints |-> meta.tpoints])
             @@ BuildKeyMap(SubSeq(fs, 1, Len(fs) - 1), dsk)

\* keyMap.keys(): the keys in the order of their first insertion
RECURSIVE Keys(_)
Keys(fs) ==
    IF fs = <<>> THEN <<>>
    ELSE LET rest == Keys(SubSeq(fs, 1, Len(fs) - 1))
             last == fs[Len(fs)]
         IN  IF last \in Range(rest) THEN rest ELSE Append(rest, last)

\* list(set(xs)) followed by .sort(), lines 164-167
RECURSIVE SortedList(_)
SortedList(S) ==
    IF S = {} THEN <<>>
    ELSE LET lo == CHOOSE x \in S : \A y \in S : Ord(x) <= Ord(y)
         IN  <<lo>> \o SortedList(S \ {lo})

GroupPairsRipMajor(models, rips) ==
    [k \in 1..(Len(models) * Len(rips)) |->
        <<models[((k - 1) % Len(models)) + 1], rips[((k - 1) \div Len(models)) + 1]>>]

\* the (model, rip) pairs in the order the two nested loops visit them
GroupPairs(models, rips) ==
    [k \in 1..(Len(models) * Len(rips)) |->
        <<models[((k - 1) \div Len(rips)) + 1], rips[((k - 1) % Len(rips)) + 1]>>]

\* lines 174-176 and 192-194
SubFiles(keys, keyMap, pair) ==
    SelectSeq(keys, LAMBDA fn : keyMap[fn].model = pair[1] /\ keyMap[fn].rip = pair[2])

RECURSIVE CascadeReversed(_, _, _)
CascadeReversed(subFiles, keyMap, crits) ==
    IF crits = <<>> THEN subFiles
    ELSE CascadeReversed(filterXmls(subFiles, keyMap, crits[Len(crits)]), keyMap,
                         SubSeq(crits, 1, Len(crits) - 1))

\* lines 179-180
RECURSIVE Cascade(_, _, _)
Cascade(subFiles, keyMap, crits) ==
    IF crits = <<>> THEN subFiles
    ELSE Cascade(filterXmls(subFiles, keyMap, Head(crits)), keyMap, Tail(crits))

SelectAll(subFiles) == subFiles

SelectLast(subFiles) == IF Len(subFiles) > 0 THEN <<subFiles[Len(subFiles)]>> ELSE <<>>

\* lines 183-184
Select(subFiles) == IF Len(subFiles) > 0 THEN <<subFiles[1]>> ELSE <<>>

\* lines 170-184
RECURSIVE ReduceLoop(_, _, _, _)
ReduceLoop(pairs, keys, keyMap, crits) ==
    IF pairs = <<>> THEN <<>>
    ELSE Select(Cascade(SubFiles(keys, keyMap, Head(pairs)), keyMap, crits))
         \o ReduceLoop(Tail(pairs), keys, keyMap, crits)

\* lines 196-201: fn1 after the loop over subFiles; fn1 is <<>> while unbound
RECURSIVE Chosen(_, _, _)
Chosen(subFiles, out, fn1) ==
    IF subFiles = <<>> THEN fn1
    ELSE Chosen(Tail(subFiles), out,
                IF Head(subFiles) \in Range(out) THEN <<Head(subFiles)>> ELSE fn1)

\* a printed line: star is the '* ' prefix, group the loop pair it is printed for
Line(star, fn, pair) == [star |-> star, fn |-> fn, group |-> pair]

\* lines 190-206; print('* ' + fn1) raises UnboundLocalError while fn1 is unbound
RECURSIVE TraceLoop(_, _, _, _, _, _)
TraceLoop(pairs, keys, keyMap, out, fn1, printed) ==
    IF pairs = <<>> THEN [lines |-> printed, raised |-> FALSE]
    ELSE LET pair     == Head(pairs)
             subFiles == SubFiles(keys, keyMap, pair)
             fn1b     == Chosen(subFiles, out, fn1)
             lowFiles == SelectSeq(subFiles, LAMBDA fn : fn \notin Range(out))
         IN  IF Len(subFiles) > 1
             THEN IF fn1b = <<>>
                  THEN [lines |-> printed, raised |-> TRUE]
                  ELSE TraceLoop(Tail(pairs), keys, keyMap, out, fn1b,
                           printed \o <<Line(TRUE, fn1b[1], pair)>>
                                   \o [i \in 1..Len(lowFiles) |->
                                          Line(FALSE, lowFiles[i], pair)])
             ELSE IF Len(subFiles) = 1
                  THEN TraceLoop(Tail(pairs), keys, keyMap, out, fn1,
                           Append(printed, Line(TRUE, subFiles[1], pair)))
                  ELSE TraceLoop(Tail(pairs), keys, keyMap, out, fn1, printed)

Models(keyMap) == SortedList({keyMap[fn].model : fn \in DOMAIN keyMap})

Rips(keyMap) == SortedList({keyMap[fn].rip : fn \in DOMAIN keyMap})

trimModelList(fs, dsk, crits, verb) ==
    LET keyMap == BuildKeyMap(fs, dsk)
        keys   == Keys(fs)
        pairs  == GroupPairs(Models(keyMap), Rips(keyMap))
        out    == ReduceLoop(pairs, keys, keyMap, crits)
        tr     == IF verb THEN TraceLoop(pairs, keys, keyMap, out, <<>>, <<>>)
                  ELSE [lines |-> <<>>, raised |-> FALSE]
    IN  [filesOut |-> out, trace |-> tr.lines, raised |-> tr.raised]

---------------------------------------------------------------------------
(* The inputs the calls are drawn from *)

\* the longest input list of files
MaxFiles == 2

\* the longest list of files filterXmls is called on
MaxList == 3

\* the longest digit string of a version label
MaxLabelLen == 8

ModelNames == {"A", "B"}

RipNames == {"1", "2"}

\* version labels of the file names: an ordinal and a date
FileVersions == {<<"v", "1">>, <<"v", "2", "0", "1", "9", "0", "8", "2", "9">>}

FileNames == {MkFn(m, r, v) : m \in ModelNames, r \in RipNames, v \in FileVersions}

\* what cdms2.open can give: an ISO creation date, a directory below a
\* 'publish' part and a time axis; or a free-text creation date, a directory
\* that starts with 'publish' and no time axis
FileHandles ==
    { [attributes |-> {"creation_date"},
       creation_date |-> [alpha |-> FALSE, y |-> 2012, m |-> 2, d |-> 13],
       directory |-> <<"data", "publish">>, axes |-> {"time", "lat"}, ntime |-> 12],
      [attributes |-> {"creation_date"},
       creation_date |-> [alpha |-> TRUE, y |-> 2011, m |-> 0, d |-> 0],
       directory |-> <<"publish", "data">>, axes |-> {"lat"}, ntime |-> 0] }

Criteria == {"cdate", "ver", "tpoints", "publish"}

SeqsUpTo(S, n) == UNION {[1..k -> S] : k \in 0..n}

\* the criteria lists without a repeated criterion
CriteriaLists ==
    {c \in SeqsUpTo(Criteria, Cardinality(Criteria)) :
        \A i, j \in 1..Len(c) : i # j => c[i] # c[j]}

FileLists == SeqsUpTo(FileNames, MaxFiles)

DigitChars == {"0", "1", "9"}

AllDigits == {Ascii[i] : i \in 1..10}

\* 'latest', 'v', 'vN' and 'N' for every digit N, and the digit strings over
\* DigitChars with and without the 'v'
Labels ==
    {Latest, <<"v">>}
    \cup {<<c>> : c \in AllDigits} \cup {<<"v", c>> : c \in AllDigits}
    \cup UNION {[1..k -> DigitChars] : k \in 1..MaxLabelLen}
    \cup {<<"v">> \o s : s \in UNION {[1..k -> DigitChars] : k \in 1..MaxLabelLen}}

---------------------------------------------------------------------------
(* The state machine.  A specification starts with one function called on   *)
(* arguments drawn from the input sets (pc = "called") and its one action  *)
(* runs the body of the function to its return or to the exception.        *)

VIdle == vLabel = <<>> /\ vOut = 0 /\ vpc = "idle"

FIdle == fFiles = <<>> /\ fKeyMap = <<>> /\ fCrit = "cdate" /\ fOut = <<>> /\ fpc = "idle"

TIdle ==
    /\ files = <<>> /\ disk = <<>> /\ criteria = <<>> /\ verbose = FALSE
    /\ filesOut = <<>> /\ trace = <<>> /\ pc = "idle"

TCalled(verb) ==
    /\ files \in FileLists
    /\ disk \in [Range(files) -> FileHandles]
    /\ criteria \in CriteriaLists
    /\ verbose = verb
    /\ filesOut = <<>> /\ trace = <<>> /\ pc = "called"

Init == VIdle /\ FIdle /\ TCalled(FALSE)

InitVerbose == VIdle /\ FIdle /\ TCalled(TRUE)

InitFilter ==
    /\ VIdle /\ TIdle
    /\ fFiles \in SeqsUpTo(FileNames, MaxList)
    /\ \E dsk \in [Range(fFiles) -> FileHandles] : fKeyMap = BuildKeyMap(fFiles, dsk)
    /\ fCrit \in Criteria
    /\ fOut = <<>> /\ fpc = "called"

InitVersion ==
    /\ FIdle /\ TIdle
    /\ vLabel \in Labels /\ vOut = 0 /\ vpc = "called"

VersionWeight ==
    /\ vpc = "called"
    /\ IF versionWeightRaises(vLabel)
       THEN vOut' = 0 /\ vpc' = "raised"
       ELSE vOut' = versionWeight(vLabel) /\ vpc' = "returned"
    /\ UNCHANGED <<vLabel, fVars, tVars>>

FilterXmls ==
    /\ fpc = "called"
    /\ fOut' = filterXmls(fFiles, fKeyMap, fCrit)
    /\ fpc' = "returned"
    /\ UNCHANGED <<fFiles, fKeyMap, fCrit, vVars, tVars>>

TrimModelList ==
    /\ pc = "called"
    /\ \E r \in {trimModelList(files, disk, criteria, verbose)} :
        /\ filesOut' = r.filesOut
        /\ trace' = r.trace
        /\ pc' = IF r.raised THEN "raised" ELSE "returned"
    /\ UNCHANGED <<files, disk, criteria, verbose, vVars, fVars>>

Next == TrimModelList

Spec == Init /\ [][Next]_vars

SpecVerbose == InitVerbose /\ [][Next]_vars

NextFilter == FilterXmls

SpecFilter == InitFilter /\ [][NextFilter]_vars

NextVersion == VersionWeight

SpecVersion == InitVersion /\ [][NextVersion]_vars

---------------------------------------------------------------------------
(* Vocabulary of the properties *)

Returned == pc = "returned"

\* the (model, realization) pair of a file
Group(fn) == <<Field(fn, 4), Field(fn, 5)>>

GroupLess(g, h) ==
    \/ Ord(g[1]) < Ord(h[1])
    \/ g[1] = h[1] /\ Ord(g[2]) < Ord(h[2])

InputGroups == {Group(fn) : fn \in Range(files)}

\* the files of the input that belong to group g
Members(g) == {fn \in Range(files) : Group(fn) = g}

\* the files of a returned list that belong to group g
Entry(out, g) == {out[i] : i \in {j \in 1..Len(out) : Group(out[j]) = g}}

\* the metadata the call works on
Meta == BuildKeyMap(files, disk)

NumericCriteria == {"cdate", "ver", "tpoints"}

\* file h beats file f on the criteria cs: it is larger on one of them and
\* equal on all the earlier ones
LexGreater(km, h, f, cs) ==
    \E k \in 1..Len(cs) :
        /\ km[h][cs[k]] > km[f][cs[k]]
        /\ \A j \in 1..(k - 1) : km[h][cs[j]] = km[f][cs[j]]

\* the files of S that no file of S beats on the criteria cs
LexMaxima(km, S, cs) == {f \in S : \A h \in S : ~LexGreater(km, h, f, cs)}

\* one criterion applied to a set of candidates
SetFilter(km, S, crit) ==
    IF Cardinality(S) < 2 THEN S
    ELSE IF crit = "publish" THEN {f \in S : km[f].publish}
    ELSE {f \in S : \A h \in S : km[h][crit] <= km[f][crit]}

\* the candidates of S that are left after the criteria cs, in this order
RECURSIVE SetCascade(_, _, _)
SetCascade(km, S, cs) ==
    IF cs = <<>> THEN S ELSE SetCascade(km, SetFilter(km, S, Head(cs)), Tail(cs))

\* the file of T that comes first in the input list
FirstInInput(T) ==
    files[CHOOSE i \in 1..Len(files) :
              files[i] \in T /\ \A j \in 1..(i - 1) : files[j] \notin T]

\* s < t for two str (sequences of characters)
RECURSIVE StrLess(_, _)
StrLess(s, t) ==
    IF t = <<>> THEN FALSE
    ELSE IF s = <<>> THEN TRUE
    ELSE IF s[1] # t[1] THEN Ord(s[1]) < Ord(t[1])
    ELSE StrLess(Tail(s), Tail(t))

\* fn < gn for two paths that differ in the model, realization or version
FnLess(fn, gn) ==
    \/ Ord(Field(fn, 4)) < Ord(Field(gn, 4))
    \/ /\ Field(fn, 4) = Field(gn, 4)
       /\ \/ Ord(Field(fn, 5)) < Ord(Field(gn, 5))
          \/ /\ Field(fn, 5) = Field(gn, 5)
             /\ StrLess(Field(fn, 10), Field(gn, 10))

\* the lexicographically smallest file of T
LexSmallest(T) == CHOOSE f \in T : \A h \in T \ {f} : FnLess(f, h)

\* the criteria before the first 'publish'
BeforePublish(cs) ==
    SubSeq(cs, 1, (CHOOSE i \in 1..Len(cs) :
                       cs[i] = "publish" /\ \A j \in 1..(i - 1) : cs[j] # "publish") - 1)

Reverse(cs) == [i \in 1..Len(cs) |-> cs[Len(cs) + 1 - i]]

---------------------------------------------------------------------------
(* C1 *)

\* C1: the returned list holds at most one file of each (model, realization)
\* pair of the input, and only files of the input.
C1_AtMostOnePerGroup ==
    Returned =>
        /\ Range(filesOut) \subseteq Range(files)
        /\ \A g \in InputGroups :
               Cardinality({i \in 1..Len(filesOut) : Group(filesOut[i]) = g}) <= 1

\* a group with two files, of which one is returned
C1_Witness ==
    /\ Returned /\ Len(filesOut) = 1
    /\ \E g \in InputGroups : Cardinality(Members(g)) = 2 /\ Entry(filesOut, g) # {}

---------------------------------------------------------------------------
(* C2 *)

\* C2: the returned list holds one file for every (model, realization) pair
\* that has a file in the input.
C2_EveryGroupRepresented ==
    Returned =>
        \A g \in InputGroups :
            Cardinality({i \in 1..Len(filesOut) : Group(filesOut[i]) = g}) = 1

---------------------------------------------------------------------------
(* C3 *)

\* C3: called with two or more files and a numeric criterion, filterXmls
\* returns the files of the input whose value equals the largest value of
\* the input, in input order, and nothing else.
C3_NumericKeepsMaxima ==
    (fpc = "returned" /\ Len(fFiles) >= 2 /\ fCrit \in NumericCriteria) =>
        fOut = SelectSeq(fFiles,
                   LAMBDA fn : \A i \in 1..Len(fFiles) :
                                   fKeyMap[fFiles[i]][fCrit] <= fKeyMap[fn][fCrit])

\* three files, the first and the last hold the maximum and are kept
C3_Witness ==
    /\ fpc = "returned" /\ fCrit \in NumericCriteria
    /\ Len(fFiles) = 3 /\ Len(fOut) = 2
    /\ fOut = <<fFiles[1], fFiles[3]>>

---------------------------------------------------------------------------
(* C4 *)

Unpublished(g) == \A fn \in Members(g) : ~Meta[fn].publish

\* C4 as stated: a group without a published file contributes no file when
\* 'publish' is among the criteria, whatever its size and wherever 'publish'
\* stands.
C4_UnpublishedGroupEmpty ==
    (Returned /\ "publish" \in Range(criteria)) =>
        \A g \in InputGroups : Unpublished(g) => Entry(filesOut, g) = {}

\* C4 as amended: a group without a published file contributes no file
\* exactly when two or more of its files are left by the criteria that
\* precede 'publish'; when one file is left, that file is the group's entry.
C4_UnpublishedGroupEmptyIffTwoLeft ==
    (Returned /\ "publish" \in Range(criteria)) =>
        \A g \in InputGroups :
            Unpublished(g) =>
                LET left == LexMaxima(Meta, Members(g), BeforePublish(criteria))
                IN  IF Cardinality(left) >= 2
                    THEN Entry(filesOut, g) = {}
                    ELSE Entry(filesOut, g) = left

\* an unpublished group of two files under [ver, publish]: the version
\* leaves one file, which is returned
C4_Witness ==
    /\ Returned /\ criteria = <<"ver", "publish">> /\ Len(filesOut) = 1
    /\ \E g \in InputGroups : Unpublished(g) /\ Cardinality(Members(g)) = 2

---------------------------------------------------------------------------
(* C5 *)

\* C5 as stated: every list that holds the same set of files gives the same
\* output, and the entry of a group is the lexicographically smallest of the
\* files that tie after the whole cascade.
C5_OrderIndependent ==
    Returned =>
        /\ \A other \in FileLists :
               Range(other) = Range(files) =>
                   trimModelList(other, disk, criteria, verbose).filesOut = filesOut
        /\ \A g \in InputGroups :
               LET tie == SetCascade(Meta, Members(g), criteria)
               IN  tie # {} => Entry(filesOut, g) = {LexSmallest(tie)}

\* C5 as amended: the output is fixed by the set of files up to the choice
\* among tied files: its groups are those whose cascade leaves a file, in
\* ascending order, and the entry of a group is the file, among those that
\* tie after the whole cascade, that comes first in the input list.
C5_FirstInInputOrder ==
    Returned =>
        /\ \A g \in InputGroups :
               LET tie == SetCascade(Meta, Members(g), criteria)
               IN  Entry(filesOut, g) = IF tie = {} THEN {} ELSE {FirstInInput(tie)}
        /\ \A i, j \in 1..Len(filesOut) :
               i < j => GroupLess(Group(filesOut[i]), Group(filesOut[j]))

\* two files tie after the cascade and the later one in the list is the
\* lexicographically smaller: the first of the list is returned
C5_Witness ==
    /\ Returned /\ Len(files) = 2 /\ Len(filesOut) = 1
    /\ SetCascade(Meta, Range(files), criteria) = Range(files)
    /\ FnLess(files[2], files[1])
    /\ filesOut = <<files[1]>>

---------------------------------------------------------------------------
(* C6 *)

\* C6: the returned files stand in ascending model order and, within one
\* model, in ascending realization order, whatever the order of the input.
C6_OutputSorted ==
    Returned =>
        \A i, j \in 1..Len(filesOut) :
            i < j => GroupLess(Group(filesOut[i]), Group(filesOut[j]))

\* the input lists model B before model A with the larger realization, the
\* output has them the other way round
C6_Witness ==
    /\ Returned /\ Len(files) = 2 /\ Len(filesOut) = 2
    /\ Group(files[1]) = <<"B", "1">> /\ Group(files[2]) = <<"A", "2">>
    /\ filesOut = <<files[2], files[1]>>

---------------------------------------------------------------------------
(* C7 *)

Ordinals == {<<"v", Ascii[n + 1]>> : n \in 1..9}

\* the 8-digit labels, with and without the 'v'
DateLabels ==
    [1..8 -> DigitChars] \cup {<<"v">> \o s : s \in [1..8 -> DigitChars]}

\* C7 as stated: versionWeight('vN') is N * 100000000, is below the weight
\* of every 8-digit date label, and grows with N.
C7_OrdinalBelowDates ==
    (vpc = "returned" /\ vLabel \in Ordinals) =>
        /\ vOut = DigitVal(vLabel[2]) * 100000000
        /\ \A D \in DateLabels : vOut < versionWeight(D)
        /\ \A W \in Ordinals :
               DigitVal(vLabel[2]) < DigitVal(W[2]) => vOut < versionWeight(W)

\* C7 as amended: versionWeight('vN') is N * 100000000, is above the weight
\* of every 8-digit date label whose number is 10 or more, and grows with N.
C7_OrdinalAboveDates ==
    (vpc = "returned" /\ vLabel \in Ordinals) =>
        /\ vOut = DigitVal(vLabel[2]) * 100000000
        /\ \A D \in DateLabels :
               PyInt(Replace(D, "v")) >= 10 => vOut > versionWeight(D)
        /\ \A W \in Ordinals :
               DigitVal(vLabel[2]) < DigitVal(W[2]) => vOut < versionWeight(W)

\* 'v1' weighs 100000000, more than the date 19991119
C7_Witness ==
    /\ vpc = "returned" /\ vLabel = <<"v", "1">> /\ vOut = 100000000
    /\ versionWeight(<<"1", "9", "9", "9", "1", "1", "1", "9">>) = 19991119

---------------------------------------------------------------------------
(* C8 *)

\* the groups of two files that tie on criterion a and differ on criterion b
TiePairs(a, b) ==
    {g \in InputGroups :
        /\ Cardinality(Members(g)) = 2
        /\ \A f, h \in Members(g) : Meta[f][a] = Meta[h][a]
        /\ \E f, h \in Members(g) : Meta[f][b] # Meta[h][b]}

\* the file of a group of two that criterion b prefers
Preferred(g, b) ==
    CHOOSE f \in Members(g) :
        \A h \in Members(g) \ {f} :
            IF b = "publish" THEN Meta[f][b] ELSE Meta[h][b] < Meta[f][b]

\* C8 as stated: for a group of two files that tie on A and differ on B, the
\* criteria [A, B] and [B, A] select different survivors.
C8_ReorderingChangesSurvivor ==
    (Returned /\ Len(criteria) = 2) =>
        \A g \in TiePairs(criteria[1], criteria[2]) :
            Entry(trimModelList(files, disk, Reverse(criteria), verbose).filesOut, g)
                # Entry(filesOut, g)

\* C8 as amended: for a group of two files that tie on A and differ on B, the
\* criteria [A, B] and [B, A] both select the file that B prefers; the one
\* exception is A = publish with neither file published, where [A, B]
\* leaves the group without a file and [B, A] selects the file B prefers.
C8_ReorderingKeepsSurvivor ==
    (Returned /\ Len(criteria) = 2) =>
        \A g \in TiePairs(criteria[1], criteria[2]) :
            LET swapped ==
                    Entry(trimModelList(files, disk, Reverse(criteria), verbose).filesOut, g)
                best == {Preferred(g, criteria[2])}
            IN  /\ swapped = best
                /\ Entry(filesOut, g) =
                       IF criteria[1] = "publish" /\ Unpublished(g) THEN {} ELSE best

\* two files with the same creation date and different versions under
\* [cdate, ver]: the file with the higher version is returned
C8_Witness ==
    /\ Returned /\ criteria = <<"cdate", "ver">>
    /\ \E g \in TiePairs("cdate", "ver") : filesOut = <<Preferred(g, "ver")>>

---------------------------------------------------------------------------
(* C9 *)

\* the lines printed for group g with the '* ' mark
Starred(g) == {i \in 1..Len(trace) : trace[i].group = g /\ trace[i].star}

\* C9: in verbose mode the trace step does not fail and, for every group of
\* two or more input files, it marks exactly one file, a member of the
\* group and the group's entry in the returned list, and lists the other
\* files of the group unmarked.
C9_TraceMarksTheSurvivor ==
    (verbose /\ pc # "called") =>
        /\ pc = "returned"
        /\ \A g \in InputGroups :
               Cardinality(Members(g)) >= 2 =>
                   /\ Cardinality(Starred(g)) = 1
                   /\ \A i \in Starred(g) :
                          /\ Group(trace[i].fn) = g
                          /\ trace[i].fn \in Range(filesOut)
                          /\ \A fn \in Members(g) \ {trace[i].fn} :
                                 \E k \in 1..Len(trace) :
                                     /\ trace[k].group = g
                                     /\ ~trace[k].star
                                     /\ trace[k].fn = fn

---------------------------------------------------------------------------
(* C10 *)

\* C10: with numeric criteria only, no file of a group beats the group's
\* entry on a criterion while equalling it on all the earlier ones.
C10_SurvivorIsLexMax ==
    (Returned /\ Range(criteria) \subseteq NumericCriteria) =>
        \A i \in 1..Len(filesOut) :
            \A fn \in Members(Group(filesOut[i])) :
                ~LexGreater(Meta, fn, filesOut[i], criteria)

\* two files of one group, one newer and one with the higher version: under
\* [cdate, ver] the newer one is returned
C10_Witness ==
    /\ Returned /\ criteria = <<"cdate", "ver">> /\ Len(filesOut) = 1
    /\ \E fn \in Range(files) :
           /\ Group(fn) = Group(filesOut[1])
           /\ Meta[fn].ver > Meta[filesOut[1]].ver
           /\ Meta[fn].cdate < Meta[filesOut[1]].cdate

=============================================================================
